---- MODULE Spec2Model ----
(***************************************************************************)
(* Reference-Architect: the citation verification pipeline.                *)
(*                                                                         *)
(*   utils.py      text matcher (normalize, similarity, journal/author)    *)
(*   engines.py    provider adapters (Crossref, Semantic Scholar,          *)
(*                 OpenAlex, arXiv, PubMed, Unpaywall)                     *)
(*   processor.py  process_entry: tiered fallback, alignment, enrichment,  *)
(*                 field verification and scoring                          *)
(*   app.py        run_audit: one task per entry under a shared semaphore  *)
(*                                                                         *)
(* Python values are encoded as follows.  A str is a sequence of           *)
(* one-character strings; None is the one-element sequence <<"None">>      *)
(* (no str can equal it, its element is not a character); an int n is      *)
(* <<"int", n>>; a list is a sequence; a dict is a record whose DOMAIN is  *)
(* the set of keys that are present.                                       *)
(***************************************************************************)
EXTENDS Integers, Sequences, FiniteSets, TLC

None == <<"None">>
PyInt(n) == <<"int", n>>
IsNone(v) == v = None
IsInt(v) == Len(v) = 2 /\ v[1] = "int"

(* dict.get(key, default) *)
Get(d, key, default) == IF key \in DOMAIN d THEN d[key] ELSE default

(* truth value of a str / list / None *)
Truthy(v) == ~IsNone(v) /\ v # <<>>

(***************************************************************************)
(* utils.py: text matcher                                                  *)
(***************************************************************************)
Uppers == <<"A","B","C","D","E","F","G","H","I","J","K","L","M",
            "N","O","P","Q","R","S","T","U","V","W","X","Y","Z">>
Lowers == <<"a","b","c","d","e","f","g","h","i","j","k","l","m",
            "n","o","p","q","r","s","t","u","v","w","x","y","z">>

(* str.lower() on one character *)
LowerChar(c) ==
    IF \E i \in 1..Len(Uppers) : Uppers[i] = c
    THEN Lowers[CHOOSE i \in 1..Len(Uppers) : Uppers[i] = c]
    ELSE c

(* str.replace(old, new) for a one-character old; new is a str *)
RECURSIVE Replace(_, _, _)
Replace(s, old, new) ==
    IF s = <<>> THEN <<>>
    ELSE (IF Head(s) = old THEN new ELSE <<Head(s)>>) \o Replace(Tail(s), old, new)

Whitespace == {" ", "\t", "\n"}

(* str.split(): split on runs of whitespace, no empty tokens *)
RECURSIVE SplitWs(_, _)
SplitWs(s, cur) ==
    IF s = <<>> THEN (IF cur = <<>> THEN <<>> ELSE <<cur>>)
    ELSE IF Head(s) \in Whitespace
         THEN (IF cur = <<>> THEN <<>> ELSE <<cur>>) \o SplitWs(Tail(s), <<>>)
         ELSE SplitWs(Tail(s), Append(cur, Head(s)))

(* sep.join(parts) *)
RECURSIVE Join(_, _)
Join(parts, sep) ==
    IF parts = <<>> THEN <<>>
    ELSE IF Len(parts) = 1 THEN parts[1]
    ELSE parts[1] \o sep \o Join(Tail(parts), sep)

(* str.lower() *)
Lower(s) == [i \in 1..Len(s) |-> LowerChar(s[i])]

(* variant: the punctuation replaced after the whitespace runs are collapsed *)
normalizeLate(text) ==
    IF ~Truthy(text) THEN <<>>
    ELSE Replace(Replace(Replace(Replace(Replace(
             Join(SplitWs(Lower(text), <<>>), <<" ">>),
             "{", <<>>), "}", <<>>), ".", <<" ">>), ",", <<" ">>), "-", <<" ">>)

(* utils.normalize *)
normalize(text) ==
    IF ~Truthy(text) THEN <<>>
    ELSE Join(SplitWs(Lower(Replace(Replace(Replace(Replace(Replace(
             text, "{", <<>>), "}", <<>>), ".", <<" ">>), ",", <<" ">>), "-", <<" ">>)),
             <<>>), <<" ">>)

(* difflib.SequenceMatcher: length of the common run starting at a[i], b[j],
   inside a[i..ahi], b[j..bhi] (bounds inclusive) *)
RECURSIVE RunLen(_, _, _, _, _, _)
RunLen(a, b, i, j, ahi, bhi) ==
    IF i > ahi \/ j > bhi \/ a[i] # b[j] THEN 0
    ELSE 1 + RunLen(a, b, i + 1, j + 1, ahi, bhi)

(* find_longest_match(alo, ahi, blo, bhi): the longest block, and of those
   the one starting earliest in a, and of those earliest in b *)
(* the block <<i, j, size>> p is at least as good as q *)
BetterBlock(p, q) ==
    \/ p[3] > q[3]
    \/ p[3] = q[3] /\ p[1] < q[1]
    \/ p[3] = q[3] /\ p[1] = q[1] /\ p[2] <= q[2]

BestBlock(blocks) == CHOOSE p \in blocks : \A q \in blocks : BetterBlock(p, q)

LongestMatch(a, b, alo, ahi, blo, bhi) ==
    IF alo > ahi \/ blo > bhi THEN <<alo, blo, 0>>
    ELSE BestBlock({<<i, j, RunLen(a, b, i, j, ahi, bhi)>> : i \in alo..ahi, j \in blo..bhi})

(* get_matching_blocks(): total size of the blocks found by recursing to the
   left and to the right of the longest match m *)
RECURSIVE MatchTotal(_, _, _, _, _, _)
AroundMatch(a, b, alo, ahi, blo, bhi, m) ==
    IF m[3] = 0 THEN 0
    ELSE m[3] + MatchTotal(a, b, alo, m[1] - 1, blo, m[2] - 1)
              + MatchTotal(a, b, m[1] + m[3], ahi, m[2] + m[3], bhi)
MatchTotal(a, b, alo, ahi, blo, bhi) ==
    AroundMatch(a, b, alo, ahi, blo, bhi, LongestMatch(a, b, alo, ahi, blo, bhi))

(* SequenceMatcher(None, a, b).ratio() as the exact fraction <<num, den>>;
   two empty sequences give 1.0 *)
Ratio(a, b) ==
    IF Len(a) + Len(b) = 0 THEN <<1, 1>>
    ELSE <<2 * MatchTotal(a, b, 1, Len(a), 1, Len(b)), Len(a) + Len(b)>>

(* ratio > p/q for a threshold given as the fraction p/q *)
RatioAbove(r, p, q) == r[1] * q > p * r[2]

(* utils.similarity *)
similarity(a, b) == Ratio(normalize(a), normalize(b))

(* str.startswith *)
StartsWith(s, p) == Len(p) <= Len(s) /\ SubSeq(s, 1, Len(p)) = p

(* variant of the walk: a token of long that matched stays current *)
RECURSIVE AbbrevMatchesReuse(_, _, _, _)
AbbrevMatchesReuse(short, long, si, li) ==
    IF si > Len(short) \/ li > Len(long) THEN 0
    ELSE IF StartsWith(long[li], short[si])
         THEN 1 + AbbrevMatchesReuse(short, long, si + 1, li)
         ELSE AbbrevMatchesReuse(short, long, si, li + 1)

(* the abbreviation walk of check_journal_match: tokens of short from index
   si on, against tokens of long from index li on; the number of matches *)
RECURSIVE AbbrevMatches(_, _, _, _)
AbbrevMatches(short, long, si, li) ==
    IF si > Len(short) \/ li > Len(long) THEN 0
    ELSE IF StartsWith(long[li], short[si])
         THEN 1 + AbbrevMatches(short, long, si + 1, li + 1)
         ELSE AbbrevMatches(short, long, si, li + 1)

(* check_journal_match once short and long are chosen *)
AbbrevStatus(short, long) ==
    IF AbbrevMatches(short, long, 1, 1) * 4 >= Len(short) * 3 THEN "ok" ELSE "mismatch"

(* check_journal_match on the token lists *)
TokensStatus(tokens_bib, tokens_api) ==
    IF Len(tokens_bib) < Len(tokens_api)
    THEN AbbrevStatus(tokens_bib, tokens_api)
    ELSE AbbrevStatus(tokens_api, tokens_bib)

(* check_journal_match on the normalized names *)
NormStatus(norm_bib, norm_api) ==
    IF RatioAbove(Ratio(norm_bib, norm_api), 6, 10) THEN "ok"
    ELSE TokensStatus(SplitWs(norm_bib, <<>>), SplitWs(norm_api, <<>>))

(* utils.check_journal_match *)
check_journal_match(bib_journal, api_journal) ==
    IF ~Truthy(bib_journal) \/ ~Truthy(api_journal) THEN "missing"
    ELSE NormStatus(normalize(bib_journal), normalize(api_journal))

(* str.split(sep) for a non-empty separator: empty pieces are kept *)
RECURSIVE SplitOn(_, _, _)
SplitOn(s, sep, cur) ==
    IF s = <<>> THEN <<cur>>
    ELSE IF StartsWith(s, sep)
         THEN <<cur>> \o SplitOn(SubSeq(s, Len(sep) + 1, Len(s)), sep, <<>>)
         ELSE SplitOn(Tail(s), sep, Append(cur, Head(s)))

(* sub in s, for strs *)
Contains(s, sub) ==
    \E k \in 0..(Len(s) - Len(sub)) : SubSeq(s, k + 1, k + Len(sub)) = sub

SepAnd == <<" ", "a", "n", "d", " ">>

(* the test check_authors makes on one author of the API list *)
NamesMatch(norm_first, norm_auth) ==
    \/ Contains(norm_auth, norm_first)
    \/ Contains(norm_first, norm_auth)
    \/ RatioAbove(Ratio(norm_first, norm_auth), 7, 10)

(* the loop of check_authors *)
AnyNameMatches(norm_first, auths) ==
    \E k \in 1..Len(auths) : NamesMatch(norm_first, normalize(auths[k]))

(* utils.check_authors *)
check_authors(bib_authors, api_authors) ==
    IF ~Truthy(bib_authors) \/ ~Truthy(api_authors) THEN FALSE
    ELSE AnyNameMatches(
             normalize(SplitOn(SplitOn(bib_authors, SepAnd, <<>>)[1], <<",">>, <<>>)[1]),
             SplitOn(api_authors, SepAnd, <<>>))

(***************************************************************************)
(* int() and str() on the values the year check sees                       *)
(***************************************************************************)
Digits == <<"0","1","2","3","4","5","6","7","8","9">>
IsDigit(c) == \E d \in 1..10 : Digits[d] = c
DigitVal(c) == (CHOOSE d \in 1..10 : Digits[d] = c) - 1

RECURSIVE DigitsVal(_, _)
DigitsVal(s, acc) ==
    IF s = <<>> THEN acc ELSE DigitsVal(Tail(s), 10 * acc + DigitVal(Head(s)))

RECURSIVE NatToStr(_)
NatToStr(n) ==
    IF n < 10 THEN <<Digits[n + 1]>> ELSE NatToStr(n \div 10) \o <<Digits[(n % 10) + 1]>>

(* str.strip() for blanks *)
RECURSIVE StripLeft(_)
StripLeft(s) == IF s # <<>> /\ Head(s) = " " THEN StripLeft(Tail(s)) ELSE s
RECURSIVE StripRight(_)
StripRight(s) ==
    IF s # <<>> /\ s[Len(s)] = " " THEN StripRight(SubSeq(s, 1, Len(s) - 1)) ELSE s
Strip(s) == StripRight(StripLeft(s))

(* str.isdigit(), and int(v) succeeds: v is an int, or a str holding an
   optionally signed decimal numeral, blanks around it allowed *)
Unsigned(t) == IF t # <<>> /\ Head(t) \in {"+", "-"} THEN Tail(t) ELSE t
IsDigitStr(s) == s # <<>> /\ \A k \in 1..Len(s) : IsDigit(s[k])
SignedVal(t) ==
    IF Head(t) = "-" THEN 0 - DigitsVal(Unsigned(t), 0) ELSE DigitsVal(Unsigned(t), 0)

IntParses(v) == IsInt(v) \/ (~IsNone(v) /\ IsDigitStr(Unsigned(Strip(v))))

(* int(v), where IntParses(v) *)
IntOf(v) == IF IsInt(v) THEN v[2] ELSE SignedVal(Strip(v))

(* str(v) *)
Str(v) ==
    IF IsNone(v) THEN <<"N", "o", "n", "e">>
    ELSE IF IsInt(v)
         THEN (IF v[2] < 0 THEN <<"-">> \o NatToStr(0 - v[2]) ELSE NatToStr(v[2]))
         ELSE v

(* truth value of a value that may be an int *)
TruthyV(v) == IF IsInt(v) THEN v[2] # 0 ELSE Truthy(v)

Abs(n) == IF n < 0 THEN 0 - n ELSE n

(* variant: a tolerance of two years *)
YearStatusWide(bib_year, cr_year) ==
    IF Str(bib_year) = Str(cr_year) THEN "ok"
    ELSE IF TruthyV(bib_year) /\ TruthyV(cr_year)
         THEN (IF IntParses(bib_year) /\ IntParses(cr_year)
                  /\ Abs(IntOf(bib_year) - IntOf(cr_year)) <= 2
               THEN "ok" ELSE "mismatch")
         ELSE "mismatch"

(* processor.process_entry, the year check *)
YearStatus(bib_year, cr_year) ==
    IF Str(bib_year) = Str(cr_year) THEN "ok"
    ELSE IF TruthyV(bib_year) /\ TruthyV(cr_year)
         THEN (IF IntParses(bib_year) /\ IntParses(cr_year)
                  /\ Abs(IntOf(bib_year) - IntOf(cr_year)) <= 1
               THEN "ok" ELSE "mismatch")
         ELSE "mismatch"

(***************************************************************************)
(* engines.py: provider adapters                                           *)
(*                                                                         *)
(* A response is [kind, body].  kind is "neterr" (session.get raises),     *)
(* "timeout" (the per-call timeout fires), "http" (status is not 200),     *)
(* "badbody" (the body does not parse as JSON / XML) or "ok" (status 200,  *)
(* body is the parsed payload).  Keys of a payload keep their names, with  *)
(* "-" and ":" written "_".  A null holds None where a str or an int is    *)
(* expected, NullDict where a dict is, NullList where a list of dicts is.  *)
(* An adapter returns <<item, source>>, NoMatch being (None, None).        *)
(***************************************************************************)
EmptyDict == [k \in {} |-> 0]
NullDict == [null |-> TRUE]
IsNullDict(d) == "null" \in DOMAIN d
NullList == <<NullDict>>
IsNullList(l) == Len(l) = 1 /\ IsNullDict(l[1])

(* item is a dict or None, source a tag or None: None is written NoItem for
   an item and NoneTag for a tag *)
NoItem == [none |-> TRUE]
IsItem(it) == "none" \notin DOMAIN it
NoneTag == "None"
NoMatch == <<NoItem, NoneTag>>

(* str.replace(old, new) for a non-empty str old *)
RECURSIVE ReplaceSub(_, _, _)
ReplaceSub(s, old, new) ==
    IF s = <<>> THEN <<>>
    ELSE IF StartsWith(s, old)
         THEN new \o ReplaceSub(SubSeq(s, Len(old) + 1, Len(s)), old, new)
         ELSE <<Head(s)>> \o ReplaceSub(Tail(s), old, new)

(* the order of Python on keys that are pairs of ints *)
KeyGreater(a, b) == a[1] > b[1] \/ (a[1] = b[1] /\ a[2] > b[2])

(* list.sort(key=..., reverse=True): stable, descending.  keys[i] is the key
   of items[i] *)
SortDesc(items, keys) ==
    LET n == Len(items)
        Rank(i) == Cardinality({j \in 1..n : KeyGreater(keys[j], keys[i])})
                   + Cardinality({j \in 1..(i - 1) : keys[j] = keys[i]})
                   + 1
    IN  [r \in 1..n |-> items[CHOOSE i \in 1..n : Rank(i) = r]]

UrlDoiOrg == <<"h","t","t","p","s",":","/","/","d","o","i",".","o","r","g","/">>

(* title passes the similarity gate of the title-keyed lookups *)
Gate(title, candidate) == RatioAbove(similarity(title, candidate), 75, 100)

(* the rest of fetch_pdf_link, for data["best_oa_location"] *)
PdfOf(best_loc) ==
    IF ~IsNullDict(best_loc) /\ best_loc # EmptyDict
       /\ Truthy(Get(best_loc, "url_for_pdf", None))
    THEN best_loc.url_for_pdf
    ELSE None

(* engines.fetch_pdf_link: the Unpaywall lookup *)
fetch_pdf_link(doi, resp) ==
    IF ~Truthy(doi) THEN None
    ELSE IF resp.kind # "ok" THEN None
    ELSE PdfOf(Get(resp.body, "best_oa_location", EmptyDict))

(* the dict fetch_semanticscholar builds from the accepted paper; NoMatch
   when building it raises *)
S2Authors(authors) == [i \in 1..Len(authors) |-> [family |-> authors[i].name]]
S2Item(paper) ==
    IF \/ IsNullDict(Get(paper, "externalIds", EmptyDict))
       \/ IsNullList(Get(paper, "authors", <<>>))
       \/ \E i \in 1..Len(Get(paper, "authors", <<>>)) : "name" \notin DOMAIN paper.authors[i]
    THEN NoMatch
    ELSE <<[DOI |-> Get(Get(paper, "externalIds", EmptyDict), "DOI", None),
            title |-> <<Get(paper, "title", None)>>,
            issued |-> IF TruthyV(Get(paper, "year", None))
                       THEN [date_parts |-> << <<paper.year>> >>]
                       ELSE EmptyDict,
            container_title |-> <<Get(paper, "venue", <<>>)>>,
            author |-> S2Authors(Get(paper, "authors", <<>>))],
           "semanticscholar">>

S2Count(x) == Get(x, "citationCount", PyInt(0))
S2Key(x) == <<S2Count(x)[2], 0>>
S2Gate(title, paper) == Gate(title, Get(paper, "title", <<>>))

(* the loop of fetch_semanticscholar over the sorted items *)
S2Pick(title, items) ==
    IF \E i \in 1..Len(items) : S2Gate(title, items[i])
    THEN S2Item(items[CHOOSE i \in 1..Len(items) :
                          /\ S2Gate(title, items[i])
                          /\ \A j \in 1..(i - 1) : ~S2Gate(title, items[j])])
    ELSE NoMatch

(* fetch_semanticscholar on data["data"] *)
S2Search(title, raw) ==
    IF Len(raw) >= 2 /\ \E i \in 1..Len(raw) : IsNone(S2Count(raw[i])) THEN NoMatch
    ELSE S2Pick(title, SortDesc(raw, [i \in 1..Len(raw) |-> S2Key(raw[i])]))

(* engines.fetch_semanticscholar *)
fetch_semanticscholar(title, resp) ==
    IF resp.kind # "ok" THEN NoMatch
    ELSE S2Search(title, Get(resp.body, "data", <<>>))

OAAuthors(auths) ==
    [i \in 1..Len(auths) |-> [given |-> auths[i].author.display_name, family |-> <<>>]]
OAPage(biblio) ==
    IF Truthy(Get(biblio, "first_page", None))
    THEN Str(Get(biblio, "first_page", None)) \o <<"-">> \o Str(Get(biblio, "last_page", None))
    ELSE None
OAAuthorsRaise(auths) ==
    \/ IsNullList(auths)
    \/ \E i \in 1..Len(auths) :
           \/ "author" \notin DOMAIN auths[i]
           \/ IsNullDict(auths[i].author)
           \/ "display_name" \notin DOMAIN auths[i].author

(* the dict fetch_openalex builds from best, with its primary_location, the
   location's source and its biblio; NoMatch when building it raises *)
OAItem(best, loc, src, biblio) ==
    IF \/ IsNone(Get(best, "doi", <<>>))
       \/ IsNullDict(loc)
       \/ IsNullDict(src)
       \/ IsNullDict(biblio)
       \/ OAAuthorsRaise(Get(best, "authorships", <<>>))
    THEN NoMatch
    ELSE <<[DOI |-> ReplaceSub(Get(best, "doi", <<>>), UrlDoiOrg, <<>>),
            title |-> <<Get(best, "display_name", None)>>,
            issued |-> [date_parts |-> << <<Get(best, "publication_year", None)>> >>],
            container_title |-> <<Get(src, "display_name", <<>>)>>,
            author |-> OAAuthors(Get(best, "authorships", <<>>)),
            volume |-> Get(biblio, "volume", None),
            issue |-> Get(biblio, "issue", None),
            page |-> OAPage(biblio)],
           "openalex">>

OALocation(best) == Get(best, "primary_location", EmptyDict)
OASource(loc) == IF IsNullDict(loc) THEN EmptyDict ELSE Get(loc, "source", EmptyDict)

(* fetch_openalex on the top result *)
OABest(title, best) ==
    IF ~Gate(title, Get(best, "display_name", <<>>)) THEN NoMatch
    ELSE OAItem(best, OALocation(best), OASource(OALocation(best)),
                Get(best, "biblio", EmptyDict))

(* fetch_openalex on data["results"] *)
OASearch(title, results) == IF results = <<>> THEN NoMatch ELSE OABest(title, results[1])

(* engines.fetch_openalex *)
fetch_openalex(title, resp) ==
    IF resp.kind # "ok" THEN NoMatch
    ELSE OASearch(title, Get(resp.body, "results", <<>>))

SepAbs == <<"/", "a", "b", "s", "/">>
StrArxivPreprint == <<"a","r","X","i","v"," ","P","r","e","p","r","i","n","t">>

LastOf(pieces) == pieces[Len(pieces)]
Prefix4(s) == SubSeq(s, 1, IF Len(s) < 4 THEN Len(s) ELSE 4)
ArxivAuthors(authors_raw) ==
    [i \in 1..Len(authors_raw) |-> [family |-> Get(authors_raw[i], "name", None)]]
ArxivDoi(node) ==
    IF ~IsNullDict(node) /\ node # EmptyDict THEN Get(node, "text", None) ELSE None
ArxivIssued(pub_date) ==
    IF IsDigitStr(pub_date) THEN [date_parts |-> << <<PyInt(DigitsVal(pub_date, 0))>> >>]
    ELSE EmptyDict

(* fetch_arxiv once matched_title is known *)
ArxivItem(title, entry, matched_title) ==
    IF ~Gate(title, matched_title) THEN NoMatch
    ELSE IF IsNone(Get(entry, "published", <<>>)) \/ IsNullList(Get(entry, "author", NullList))
    THEN NoMatch
    ELSE <<[DOI |-> ArxivDoi(Get(entry, "arxiv_doi", EmptyDict)),
            arxiv_id |-> LastOf(SplitOn(Get(entry, "id", <<>>), SepAbs, <<>>)),
            title |-> <<matched_title>>,
            issued |-> ArxivIssued(Prefix4(Get(entry, "published", <<>>))),
            container_title |-> <<StrArxivPreprint>>,
            author |-> ArxivAuthors(Get(entry, "author", NullList))],
           "arxiv">>

(* fetch_arxiv on the first entry *)
ArxivEntry(title, entry) ==
    IF IsNone(Get(entry, "id", <<>>)) \/ IsNone(Get(entry, "title", <<>>)) THEN NoMatch
    ELSE ArxivItem(title, entry, Strip(Replace(Get(entry, "title", <<>>), "\n", <<" ">>)))

(* fetch_arxiv on data["feed"]; feed.entry is written as a list: empty when
   the key is absent, one dict when xmltodict yields a dict *)
ArxivFeed(title, feed) ==
    IF IsNullDict(feed) THEN NoMatch
    ELSE IF Get(feed, "entry", <<>>) = <<>> THEN NoMatch
    ELSE ArxivEntry(title, feed.entry[1])

(* engines.fetch_arxiv *)
fetch_arxiv(title, resp) ==
    IF resp.kind # "ok" THEN NoMatch
    ELSE ArxivFeed(title, Get(resp.body, "feed", EmptyDict))

(* engines.fetch_crossref, the doi branch (title is None): the message is
   returned as it is, no similarity gate *)
fetch_crossref_doi(resp) ==
    IF resp.kind # "ok" THEN NoMatch
    ELSE IF "message" \notin DOMAIN resp.body THEN NoMatch
    ELSE <<resp.body.message, "crossref-doi">>

CrCount(x) == Get(x, "is_referenced_by_count", PyInt(0))[2]
CrCreated(x) ==
    Get(Get(x, "created", EmptyDict), "date_parts", << <<PyInt(3000)>> >>)[1][1][2]
(* variant: among equally cited records the latest created first *)
CrKeyLatest(x) == <<CrCount(x), CrCreated(x)>>
(* the sort key of x *)
CrKey(x) == <<CrCount(x), 0 - CrCreated(x)>>
CrTitleRaises(x) == Get(x, "title", << <<>> >>) = <<>>
(* the loop stops at x: its title passes the gate, or reading it raises *)
CrStops(title, x) == CrTitleRaises(x) \/ Gate(title, Get(x, "title", << <<>> >>)[1])
CrTaken(x) == IF CrTitleRaises(x) THEN NoMatch ELSE <<x, "crossref-title">>

(* the loop of fetch_crossref over the sorted items *)
CrPick(title, items) ==
    IF \E i \in 1..Len(items) : CrStops(title, items[i])
    THEN CrTaken(items[CHOOSE i \in 1..Len(items) :
                           /\ CrStops(title, items[i])
                           /\ \A j \in 1..(i - 1) : ~CrStops(title, items[j])])
    ELSE NoMatch

(* engines.fetch_crossref, the title branch (doi is None) *)
fetch_crossref_title(title, resp) ==
    IF resp.kind # "ok" THEN NoMatch
    ELSE IF "message" \notin DOMAIN resp.body THEN NoMatch
    ELSE IF "items" \notin DOMAIN resp.body.message THEN NoMatch
    ELSE CrPick(title, SortDesc(resp.body.message.items,
                                [i \in 1..Len(resp.body.message.items) |->
                                     CrKey(resp.body.message.items[i])]))

(* re.search(r'\d{4}', s): the first run of four digits, None if there is none *)
YearAt(s, k) == \A d \in 0..3 : IsDigit(s[k + d])
FirstYear(s) ==
    IF \E k \in 1..(Len(s) - 3) : YearAt(s, k)
    THEN SubSeq(s, CHOOSE k \in 1..(Len(s) - 3) : YearAt(s, k) /\ \A j \in 1..(k - 1) : ~YearAt(s, j),
                (CHOOSE k \in 1..(Len(s) - 3) : YearAt(s, k) /\ \A j \in 1..(k - 1) : ~YearAt(s, j)) + 3)
    ELSE None

StrDoiColon == <<"d","o","i",":"," ">>
StrPMID == <<"P","M","I","D",":">>

PubmedIds(res) == IF IsNullDict(res) THEN <<>> ELSE Get(res, "idlist", <<>>)

(* engines.fetch_pubmed, the esearch call: the first id of the idlist, None
   when the adapter returns (None, None) here *)
fetch_pubmed_esearch(resp) ==
    IF resp.kind # "ok" THEN None
    ELSE IF PubmedIds(Get(resp.body, "esearchresult", EmptyDict)) = <<>> THEN None
    ELSE PubmedIds(Get(resp.body, "esearchresult", EmptyDict))[1]

PubmedDoi(pmid, doi) == IF doi # <<>> THEN doi ELSE StrPMID \o pmid
PubmedIssued(year) ==
    IF ~IsNone(year) THEN [date_parts |-> << <<PyInt(DigitsVal(year, 0))>> >>] ELSE EmptyDict
PubmedAuthors(authors) == [i \in 1..Len(authors) |-> [family |-> authors[i].name]]

(* the dict fetch_pubmed builds from details; NoMatch when building it raises *)
PubmedItem(pmid, details) ==
    IF \/ IsNullDict(details)
       \/ IsNone(Get(details, "pubdate", <<>>))
       \/ IsNone(Get(details, "elocationid", <<>>))
       \/ IsNullList(Get(details, "authors", <<>>))
       \/ \E i \in 1..Len(Get(details, "authors", <<>>)) : "name" \notin DOMAIN details.authors[i]
    THEN NoMatch
    ELSE <<[DOI |-> PubmedDoi(pmid, ReplaceSub(Get(details, "elocationid", <<>>),
                                               StrDoiColon, <<>>)),
            title |-> <<Get(details, "title", <<>>)>>,
            issued |-> PubmedIssued(FirstYear(Get(details, "pubdate", <<>>))),
            container_title |-> <<Get(details, "source", <<>>)>>,
            author |-> PubmedAuthors(Get(details, "authors", <<>>)),
            volume |-> Get(details, "volume", None),
            issue |-> Get(details, "issue", None),
            page |-> Get(details, "pages", None)],
           "pubmed-full">>

(* engines.fetch_pubmed, the esummary call for pmid: no similarity gate *)
fetch_pubmed_esummary(pmid, resp) ==
    IF resp.kind # "ok" THEN NoMatch
    ELSE PubmedItem(pmid, Get(Get(resp.body, "result", EmptyDict), pmid, EmptyDict))

(***************************************************************************)
(* processor.py: process_entry, the synchronous parts                      *)
(***************************************************************************)
StrTrue == <<"t","r","u","e">>
StrManual == <<"M","a","n","u","a","l">>
StrPMIDTag == <<"P","M","I","D">>
UrlPubmed == <<"h","t","t","p","s",":","/","/","p","u","b","m","e","d","/">>
UrlArxivAbs == <<"h","t","t","p","s",":","/","/","a","r","x","i","v","/","a","b","s","/">>

(* `if item` / `not item` *)
ItemTruthy(it) == IsItem(it) /\ it # EmptyDict

(* item.get("DOI"), None for no item *)
ItemDoi(it) == IF IsItem(it) THEN Get(it, "DOI", None) ELSE None

(* variant: the flag compared without .lower() *)
IsVerifiedExact(entry) == Get(entry, "verified", <<>>) = StrTrue

(* entry.get("verified", "").lower() == "true" *)
IsVerified(entry) ==
    LET v == Get(entry, "verified", <<>>)
    IN  [k \in 1..Len(v) |-> LowerChar(v[k])] = StrTrue

(* the result of the manual override *)
ManualResult(entry) ==
    [key |-> Get(entry, "ID", None), exists |-> TRUE, confidence |-> 100,
     resolution |-> "manual-override",
     verified_doi |-> Get(entry, "doi", StrManual),
     doi_url |-> IF Truthy(Get(entry, "doi", None)) THEN UrlDoiOrg \o entry.doi ELSE None,
     pdf_link |-> None, field_check |-> EmptyDict, clean_data |-> EmptyDict,
     warnings |-> <<>>]

(* variant: the initial status with the neutral confidence of the scoring *)
InitialStatusNeutral(entry) ==
    [key |-> Get(entry, "ID", None),
     bibtex_title |-> Get(entry, "title", <<>>),
     bibtex_year |-> Get(entry, "year", <<>>),
     bibtex_journal |-> Get(entry, "journal", <<>>),
     exists |-> FALSE, verified_doi |-> None, doi_url |-> None, pdf_link |-> None,
     resolution |-> NoneTag, confidence |-> 50, field_check |-> EmptyDict,
     clean_data |-> EmptyDict, warnings |-> <<>>]

(* the initial status dict *)
InitialStatus(entry) ==
    [key |-> Get(entry, "ID", None),
     bibtex_title |-> Get(entry, "title", <<>>),
     bibtex_year |-> Get(entry, "year", <<>>),
     bibtex_journal |-> Get(entry, "journal", <<>>),
     exists |-> FALSE, verified_doi |-> None, doi_url |-> None, pdf_link |-> None,
     resolution |-> NoneTag, confidence |-> 0, field_check |-> EmptyDict,
     clean_data |-> EmptyDict, warnings |-> <<>>]

(* variant: the PDF lookup placed before the alignment *)
StepNamesPdfFirst == <<"crossref-doi", "semanticscholar", "openalex", "arxiv",
                       "crossref-title", "pubmed", "pdf", "align", "leave">>

(* the steps of the `async with sem` block in program order; Leave is the
   end of the block *)
StepNames == <<"crossref-doi", "semanticscholar", "openalex", "arxiv",
               "crossref-title", "pubmed", "align", "pdf", "leave">>
StepRank(name) == CHOOSE k \in 1..Len(StepNames) : StepNames[k] = name

(* variant: alignment of Crossref DOI records too *)
AlignAlsoCrossrefDoi == {"openalex", "semanticscholar", "crossref-doi"}

(* variant: alignment of OpenAlex candidates only *)
AlignOnlyOpenAlex == {"openalex"}

AlignSources == {"openalex", "semanticscholar"}

(* variant: the title tiers without their `not item` *)
StepGuardNoStop(entry, name, it, src) ==
    CASE name = "crossref-doi" -> Truthy(Get(entry, "doi", None))
      [] name \in {"semanticscholar", "openalex", "arxiv", "crossref-title", "pubmed"} ->
             Truthy(Get(entry, "title", None))
      [] name = "align" -> ItemTruthy(it) /\ Truthy(ItemDoi(it)) /\ src \in AlignSources
      [] name = "pdf" -> ItemTruthy(it) /\ Truthy(ItemDoi(it))
      [] OTHER -> TRUE

(* the `if` in front of each step *)
StepGuard(entry, name, it, src) ==
    CASE name = "crossref-doi" -> Truthy(Get(entry, "doi", None))
      [] name \in {"semanticscholar", "openalex", "arxiv", "crossref-title", "pubmed"} ->
             ~ItemTruthy(it) /\ Truthy(Get(entry, "title", None))
      [] name = "align" -> ItemTruthy(it) /\ Truthy(ItemDoi(it)) /\ src \in AlignSources
      [] name = "pdf" -> ItemTruthy(it) /\ Truthy(ItemDoi(it))
      [] OTHER -> TRUE

(* the next step whose `if` holds, after the step of rank `after` *)
NextStep(entry, after, it, src) ==
    LET k == CHOOSE k \in (after + 1)..Len(StepNames) :
                 /\ StepGuard(entry, StepNames[k], it, src)
                 /\ \A j \in (after + 1)..(k - 1) : ~StepGuard(entry, StepNames[j], it, src)
    IN  StepNames[k]

(* canonical data extraction *)
TitleList(it) == Get(it, "title", << <<>> >>)
JournalList(it) == Get(it, "container_title", << <<>> >>)
Issued(it) == Get(it, "issued", EmptyDict)
DateParts(it) == Get(Issued(it), "date_parts", << <<None>> >>)
AuthorList(it) == Get(it, "author", <<>>)
(* one element of cr_authors *)
AuthorStr(a) ==
    LET f == Get(a, "family", <<>>)
        g == Get(a, "given", <<>>)
    IN  IF Truthy(f) /\ Truthy(g) THEN f \o <<",", " ">> \o g ELSE f

(* lines 98-111 raise (IndexError, AttributeError, TypeError) *)
ExtractRaises(it) ==
    \/ TitleList(it) = <<>>
    \/ IsNullDict(Issued(it))
    \/ DateParts(it) # <<>> /\ DateParts(it)[1] = <<>>
    \/ JournalList(it) = <<>>
    \/ IsNullList(AuthorList(it))
    \/ \E k \in 1..Len(AuthorList(it)) : IsNone(AuthorStr(AuthorList(it)[k]))
    \/ ~Truthy(Get(it, "issue", None)) /\ IsNullDict(Get(it, "journal_issue", EmptyDict))

TrustedSources == {"crossref-doi", "crossref-aligned", "pubmed-full", "arxiv", "semanticscholar"}

(* variant: a trusted source gets 100 when at least half of the fields
   match *)
ConfidenceTrustedHalf(src, score, valid) ==
    IF src \in TrustedSources
    THEN (IF 2 * score >= valid THEN 100
          ELSE IF valid # 0 THEN (100 * score) \div valid ELSE 50)
    ELSE (IF valid # 0 THEN (100 * score) \div valid ELSE 50)

(* the scoring expression *)
Confidence(src, score, valid) ==
    IF src \in TrustedSources
    THEN (IF score = valid THEN 100
          ELSE IF valid # 0 THEN (100 * score) \div valid ELSE 50)
    ELSE (IF valid # 0 THEN (100 * score) \div valid ELSE 50)

(* the status returned for a resolved entry; ~ExtractRaises(it) *)
ResolvedStatus(entry, it, src, pdf_link) ==
    LET verified_doi == Get(it, "DOI", None)
        arxiv_id == Get(it, "arxiv_id", None)
        doi_url == IF Truthy(verified_doi)
                   THEN (IF ~Contains(verified_doi, StrPMIDTag)
                         THEN UrlDoiOrg \o verified_doi
                         ELSE UrlPubmed \o ReplaceSub(verified_doi, StrPMID, <<>>) \o <<"/">>)
                   ELSE IF Truthy(arxiv_id) THEN UrlArxivAbs \o arxiv_id
                   ELSE None
        cr_title == TitleList(it)[1]
        cr_year == IF DateParts(it) # <<>> THEN DateParts(it)[1][1] ELSE None
        cr_journal == JournalList(it)[1]
        cr_authors == [k \in 1..Len(AuthorList(it)) |-> AuthorStr(AuthorList(it)[k])]
        cr_author_str == Join(cr_authors, SepAnd)
        cr_vol == Get(it, "volume", None)
        cr_num == IF Truthy(Get(it, "issue", None)) THEN it.issue
                  ELSE Get(Get(it, "journal_issue", EmptyDict), "issue", None)
        cr_page == Get(it, "page", None)
        title == Get(entry, "title", None)
        bib_year == Get(entry, "year", None)
        bib_journal == Get(entry, "journal", None)
        bib_author == Get(entry, "author", None)
        field_check ==
            [title |-> [bibtex |-> title, correct |-> cr_title,
                        status |-> IF RatioAbove(similarity(title, cr_title), 75, 100)
                                   THEN "ok" ELSE "mismatch"],
             year |-> [bibtex |-> bib_year, correct |-> cr_year,
                       status |-> YearStatus(bib_year, cr_year)],
             journal |-> [bibtex |-> bib_journal, correct |-> cr_journal,
                          status |-> check_journal_match(bib_journal, cr_journal)],
             author |-> [bibtex |-> bib_author, correct |-> cr_author_str,
                         status |-> IF check_authors(bib_author, cr_author_str)
                                    THEN "ok" ELSE "mismatch"]]
        score == Cardinality({f \in DOMAIN field_check : field_check[f].status = "ok"})
        valid == Cardinality({f \in DOMAIN field_check : Truthy(field_check[f].bibtex)})
    IN  [key |-> Get(entry, "ID", None),
         bibtex_title |-> Get(entry, "title", <<>>),
         bibtex_year |-> Get(entry, "year", <<>>),
         bibtex_journal |-> Get(entry, "journal", <<>>),
         exists |-> TRUE, verified_doi |-> verified_doi, doi_url |-> doi_url,
         pdf_link |-> pdf_link, resolution |-> src,
         confidence |-> Confidence(src, score, valid),
         field_check |-> field_check,
         clean_data |-> [title |-> cr_title,
                         year |-> IF TruthyV(cr_year) THEN Str(cr_year) ELSE None,
                         journal |-> cr_journal, author |-> cr_author_str,
                         volume |-> IF Truthy(cr_vol) THEN Str(cr_vol) ELSE None,
                         number |-> IF Truthy(cr_num) THEN Str(cr_num) ELSE None,
                         pages |-> IF Truthy(cr_page) THEN Str(cr_page) ELSE None,
                         doi |-> verified_doi, arxiv_id |-> arxiv_id],
         arxiv_id |-> arxiv_id,
         warnings |-> <<>>]

(***************************************************************************)
(* Data of the model: the entries of the uploaded file and the payloads    *)
(* the providers can answer with                                           *)
(***************************************************************************)
MaxEntries == 2
MaxLimit == 2

T_q == <<"a","b"," ","c","d">>
T_same == <<"A","b","-","C","d",".">>
T_near == <<"a","b"," ","c","x">>
T_far == <<"a","b"," ","x","y">>
D_1 == <<"1","0","/","a">>
D_2 == <<"1","0","/","b">>
Y_q == <<"2","0","2","0">>
J_q == <<"J"," ","N","u">>
J_long == <<"J","o","u","r"," ","N","u","c">>
J_other == <<"C","e","l","l">>
A_q == <<"R","o","e",","," ","A">>
A_family == <<"R","o","e">>
A_given == <<"A">>
A_full == <<"A"," ","R","o","e">>
A_other == <<"L","i","m">>
U_pdf == <<"u",".","p","d","f">>
Pmid_1 == <<"7">>

(* a dict from the keys and values of those pairs whose first element is TRUE *)
Dict(pairs) ==
    LET ks == {pairs[k][2] : k \in {j \in 1..Len(pairs) : pairs[j][1]}}
    IN  [key \in ks |-> pairs[CHOOSE k \in 1..Len(pairs) : pairs[k][1] /\ pairs[k][2] = key][3]]

(* the entries a file can hold: every subset of the optional fields *)
EntryPool ==
    {Dict(<< <<TRUE, "ID", <<"k">> >>,
             <<v # 0, "verified", IF v = 1 THEN <<"T","r","u","e">> ELSE <<"n","o">> >>,
             <<d, "doi", D_1>>, <<t, "title", T_q>>, <<y, "year", Y_q>>,
             <<j, "journal", J_q>>, <<a, "author", A_q>> >>) :
        v \in 0..2, d \in BOOLEAN, t \in BOOLEAN, y \in BOOLEAN, j \in BOOLEAN, a \in BOOLEAN}

(* Crossref works *)
W_full ==
    [DOI |-> D_1, title |-> <<T_same>>,
     issued |-> [date_parts |-> << <<PyInt(2021)>> >>],
     container_title |-> <<J_long>>,
     author |-> <<[family |-> A_family, given |-> A_given]>>,
     volume |-> <<"4">>, page |-> <<"1","-","9">>,
     is_referenced_by_count |-> PyInt(9),
     created |-> [date_parts |-> << <<PyInt(2021)>> >>]]
W_off ==
    [DOI |-> D_1, title |-> <<T_far>>,
     issued |-> [date_parts |-> << <<PyInt(2023)>> >>],
     container_title |-> <<J_other>>,
     author |-> <<[family |-> A_other, given |-> A_given]>>,
     is_referenced_by_count |-> PyInt(20)]
W_noyear ==
    [DOI |-> D_1, title |-> <<T_near>>,
     issued |-> [date_parts |-> << <<None>> >>],
     is_referenced_by_count |-> PyInt(9),
     created |-> [date_parts |-> << <<PyInt(2019)>> >>]]
W_emptytitle ==
    [DOI |-> D_1, title |-> <<>>,
     issued |-> [date_parts |-> << <<PyInt(2020)>> >>],
     container_title |-> <<J_long>>]
W_nojournal ==
    [DOI |-> D_1, title |-> <<T_same>>, container_title |-> <<>>,
     issued |-> [date_parts |-> << <<PyInt(2020)>> >>]]

(* Semantic Scholar papers *)
S_full ==
    [title |-> T_same, citationCount |-> PyInt(5), externalIds |-> [DOI |-> D_2],
     year |-> PyInt(2020), venue |-> J_long, authors |-> <<[name |-> A_full]>>]
S_nodoi ==
    [title |-> T_near, citationCount |-> PyInt(7), externalIds |-> [ArXiv |-> <<"1">>],
     venue |-> <<>>, authors |-> <<>>]
S_nullids ==
    [title |-> T_same, citationCount |-> PyInt(8), externalIds |-> NullDict,
     year |-> PyInt(2020), authors |-> <<[name |-> A_full]>>]
S_far == [title |-> T_far, citationCount |-> PyInt(30), externalIds |-> [DOI |-> D_1]]

(* OpenAlex works *)
O_full ==
    [display_name |-> T_same, doi |-> UrlDoiOrg \o D_2, publication_year |-> PyInt(2020),
     primary_location |-> [source |-> [display_name |-> J_long]],
     authorships |-> <<[author |-> [display_name |-> A_full]],
                       [author |-> [display_name |-> A_other]]>>,
     biblio |-> [volume |-> <<"4">>, first_page |-> <<"1">>, last_page |-> None]]
O_nodoi == [display_name |-> T_same, authorships |-> <<[author |-> [display_name |-> A_full]]>>]
O_nullsource ==
    [display_name |-> T_same, doi |-> UrlDoiOrg \o D_2,
     primary_location |-> [source |-> NullDict]]
O_far == [display_name |-> T_far, doi |-> UrlDoiOrg \o D_2]

(* arXiv entries *)
X_full ==
    [id |-> <<"x","/","a","b","s","/","1">>, title |-> <<"a","b","\n","c","d">>,
     published |-> <<"2","0","1","9","-","0","5">>, author |-> <<[name |-> A_full]>>]
X_doi ==
    [id |-> <<"x","/","a","b","s","/","2">>, title |-> T_same, published |-> <<>>,
     author |-> <<[name |-> A_full]>>, arxiv_doi |-> [text |-> D_2]]
X_far == [id |-> <<"3">>, title |-> T_far, published |-> <<>>, author |-> <<>>]

(* PubMed esummary records *)
P_full ==
    [title |-> T_same, pubdate |-> <<"2","0","2","0"," ","J","a","n">>, source |-> J_long,
     authors |-> <<[name |-> <<"R","o","e"," ","A">>]>>,
     elocationid |-> StrDoiColon \o D_2, volume |-> <<"4">>]
P_other == [title |-> T_far, pubdate |-> <<>>, source |-> J_other, authors |-> <<>>]

(* what the providers can answer: the kinds of failure, and by call the
   payloads of a 200 response *)
RichWorld ==
    [faults |-> {"neterr", "timeout", "http", "badbody"},
     crossref_doi |-> {EmptyDict, [message |-> W_full], [message |-> W_off],
                       [message |-> W_noyear], [message |-> W_emptytitle],
                       [message |-> W_nojournal]},
     semanticscholar |-> {EmptyDict, [data |-> <<S_far, S_full>>], [data |-> <<S_nodoi>>],
                          [data |-> <<S_nullids, S_full>>], [data |-> <<S_far>>]},
     openalex |-> {[results |-> <<>>], [results |-> <<O_full, O_nodoi>>],
                   [results |-> <<O_nodoi>>], [results |-> <<O_nullsource>>],
                   [results |-> <<O_far, O_full>>]},
     arxiv |-> {EmptyDict, [feed |-> [entry |-> <<X_full>>]],
                [feed |-> [entry |-> <<X_doi, X_far>>]], [feed |-> [entry |-> <<X_far>>]]},
     crossref_title |-> {EmptyDict, [message |-> [items |-> <<>>]],
                         [message |-> [items |-> <<W_noyear, W_off, W_full>>]],
                         [message |-> [items |-> <<W_off, W_nojournal>>]],
                         [message |-> [items |-> <<W_emptytitle, W_full>>]]},
     pubmed_esearch |-> {EmptyDict, [esearchresult |-> [idlist |-> <<>>]],
                         [esearchresult |-> [idlist |-> <<Pmid_1>>]]},
     pubmed_esummary |-> {EmptyDict, [result |-> EmptyDict],
                          [result |-> (Pmid_1 :> P_full)], [result |-> (Pmid_1 :> P_other)]},
     unpaywall |-> {EmptyDict, [best_oa_location |-> NullDict],
                    [best_oa_location |-> [url_for_pdf |-> U_pdf]]}]

(* the answers to a file of several entries: a timeout or one payload per
   call, and only timeouts from arXiv, the Crossref search and PubMed *)
LeanWorld ==
    [faults |-> {"timeout"},
     crossref_doi |-> {[message |-> W_full], [message |-> W_emptytitle]},
     semanticscholar |-> {[data |-> <<S_far, S_full>>]},
     openalex |-> {[results |-> <<O_nodoi>>]},
     arxiv |-> {},
     crossref_title |-> {},
     pubmed_esearch |-> {},
     pubmed_esummary |-> {},
     unpaywall |-> {[best_oa_location |-> [url_for_pdf |-> U_pdf]]}]

(* the entries of a file with several entries *)
LeanEntries ==
    <<[ID |-> <<"k">>, title |-> T_q, author |-> A_q],
      [ID |-> <<"k">>, doi |-> D_1, year |-> Y_q],
      [ID |-> <<"k">>, verified |-> <<"t","r","u","e">>, doi |-> D_1, title |-> T_q]>>

Fault(kind) == [kind |-> kind, body |-> EmptyDict]
Ok(body) == [kind |-> "ok", body |-> body]

(***************************************************************************)
(* State                                                                   *)
(***************************************************************************)
VARIABLES
    entries,    \* library.entries
    world,      \* which of the worlds above the providers answer from
    limit,      \* concurrency, the initial value of the semaphore
    permits,    \* sem._value
    pc,         \* where each process_entry task is: "new", "waiting" (on the
                \* semaphore), the network call it awaits, "done" (returned),
                \* "raised", "cancelled"
    item,       \* process_entry's item
    source,     \* process_entry's source
    pmid,       \* fetch_pubmed's pmid between its two calls
    result,     \* what each task returned
    acq,        \* history: how many times each task has acquired the semaphore
    rel,        \* history: how many times each task has released it
    log,        \* history: the network calls each task has completed
    last,       \* history: the response of the call that returned last
    doneq,      \* tasks in order of completion, not yet seen by as_completed
    results,    \* run_audit's results
    run,        \* run_audit: "running", "done" (returned), "aborted" (raised)
    applied,    \* the pure function applied last, with its arguments
    value       \* what it returned

vars == <<entries, world, limit, permits, pc, item, source, pmid, result, acq, rel, log,
          last, doneq, results, run, applied, value>>
(* the variables of the audit run, and those of a function application *)
audit == <<entries, world, limit, permits, pc, item, source, pmid, result, acq, rel, log,
           last, doneq, results, run>>
calc == <<applied, value>>
NoCall == [fn |-> "", args |-> <<>>]

Tasks == 1..Len(entries)
NoResult == [none |-> TRUE]
NoLast == [task |-> 0, who |-> "", kind |-> "", empty |-> FALSE, hit |-> FALSE]
Calls == {"crossref-doi", "semanticscholar", "openalex", "arxiv", "crossref-title",
          "pubmed-esearch", "pubmed-esummary", "align", "pdf"}
InFlight(i) == pc[i] \in Calls

WithId(e, i) == [k \in DOMAIN e |-> IF k = "ID" THEN <<Digits[i + 1]>> ELSE e[k]]

(* one entry of any shape against the rich world, or a file of several
   entries against the lean one *)
Init ==
    /\ \/ /\ \E e \in EntryPool : entries = <<WithId(e, 1)>>
          /\ world = "rich"
       \/ /\ \E n \in 2..MaxEntries : \E shape \in [1..n -> 1..Len(LeanEntries)] :
                /\ \A k \in 1..(n - 1) : shape[k] <= shape[k + 1]
                /\ entries = [k \in 1..n |-> WithId(LeanEntries[shape[k]], k)]
          /\ world = "lean"
    /\ limit \in 1..MaxLimit
    /\ permits = limit
    /\ pc = [i \in Tasks |-> "new"]
    /\ item = [i \in Tasks |-> NoItem]
    /\ source = [i \in Tasks |-> NoneTag]
    /\ pmid = [i \in Tasks |-> None]
    /\ result = [i \in Tasks |-> NoResult]
    /\ acq = [i \in Tasks |-> 0]
    /\ rel = [i \in Tasks |-> 0]
    /\ log = [i \in Tasks |-> <<>>]
    /\ last = NoLast
    /\ doneq = <<>>
    /\ results = <<>>
    /\ run = "running"
    /\ applied = NoCall
    /\ value = None

(***************************************************************************)
(* processor.process_entry as a task                                       *)
(***************************************************************************)
(* the pc of the first network call of a step *)
CallOf(step) == IF step = "pubmed" THEN "pubmed-esearch" ELSE step

(* process_entry from the step after rank `after` up to its next await or
   its end: the task's next pc, variables, and whether it left the
   `async with sem` block *)
Continue(entry, after, it, src, pdf_link) ==
    LET nxt == NextStep(entry, after, it, src)
    IN  IF nxt # "leave"
        THEN [pc |-> CallOf(nxt), item |-> it, source |-> src, result |-> NoResult,
              leave |-> FALSE]
        ELSE IF ~ItemTruthy(it)
        THEN [pc |-> "done", item |-> it, source |-> src,
              result |-> InitialStatus(entry), leave |-> TRUE]
        ELSE IF ExtractRaises(it)
        THEN [pc |-> "raised", item |-> it, source |-> src, result |-> NoResult,
              leave |-> TRUE]
        ELSE [pc |-> "done", item |-> it, source |-> src,
              result |-> ResolvedStatus(entry, it, src, pdf_link), leave |-> TRUE]

(* variant: the permit released by hand at the end of the block, which an
   entry without a candidate does not reach *)
ResumeLeak(i, out, took) ==
    /\ pc' = [pc EXCEPT ![i] = out.pc]
    /\ item' = [item EXCEPT ![i] = out.item]
    /\ source' = [source EXCEPT ![i] = out.source]
    /\ result' = [result EXCEPT ![i] = out.result]
    /\ permits' = (permits - took) + (IF out.leave /\ ItemTruthy(out.item) THEN 1 ELSE 0)
    /\ acq' = [acq EXCEPT ![i] = @ + took]
    /\ rel' = [rel EXCEPT ![i] = @ + (IF out.leave /\ ItemTruthy(out.item) THEN 1 ELSE 0)]
    /\ doneq' = IF out.pc \in {"done", "raised"} THEN Append(doneq, i) ELSE doneq

(* the task i takes the state out; took is 1 when the step began with
   sem.acquire(), and the task releases when it leaves the block *)
Resume(i, out, took) ==
    /\ pc' = [pc EXCEPT ![i] = out.pc]
    /\ item' = [item EXCEPT ![i] = out.item]
    /\ source' = [source EXCEPT ![i] = out.source]
    /\ result' = [result EXCEPT ![i] = out.result]
    /\ permits' = (permits - took) + (IF out.leave THEN 1 ELSE 0)
    /\ acq' = [acq EXCEPT ![i] = @ + took]
    /\ rel' = [rel EXCEPT ![i] = @ + (IF out.leave THEN 1 ELSE 0)]
    /\ doneq' = IF out.pc \in {"done", "raised"} THEN Append(doneq, i) ELSE doneq

(* variant: the block entered without waiting for a permit *)
StartNoWait(i) ==
    /\ pc[i] = "new"
    /\ IF IsVerified(entries[i])
       THEN /\ pc' = [pc EXCEPT ![i] = "done"]
            /\ result' = [result EXCEPT ![i] = ManualResult(entries[i])]
            /\ doneq' = Append(doneq, i)
            /\ UNCHANGED <<permits, item, source, acq, rel>>
       ELSE \E out \in {Continue(entries[i], 0, NoItem, NoneTag, None)} :
                Resume(i, out, 1)
    /\ UNCHANGED <<entries, world, limit, pmid, log, last, results, run, applied, value>>

(* the first step of a task: the manual override, else sem.acquire(), which
   does not suspend when a permit is free *)
Start(i) ==
    /\ pc[i] = "new"
    /\ IF IsVerified(entries[i])
       THEN /\ pc' = [pc EXCEPT ![i] = "done"]
            /\ result' = [result EXCEPT ![i] = ManualResult(entries[i])]
            /\ doneq' = Append(doneq, i)
            /\ UNCHANGED <<permits, item, source, acq, rel>>
       ELSE IF permits > 0
       THEN \E out \in {Continue(entries[i], 0, NoItem, NoneTag, None)} :
                Resume(i, out, 1)
       ELSE /\ pc' = [pc EXCEPT ![i] = "waiting"]
            /\ UNCHANGED <<permits, item, source, result, acq, rel, doneq>>
    /\ UNCHANGED <<entries, world, limit, pmid, log, last, results, run, applied, value>>

(* a waiting task is woken with a permit *)
Acquire(i) ==
    /\ pc[i] = "waiting"
    /\ permits > 0
    /\ \E out \in {Continue(entries[i], 0, NoItem, NoneTag, None)} :
           Resume(i, out, 1)
    /\ UNCHANGED <<entries, world, limit, pmid, log, last, results, run, applied, value>>

Answers == IF world = "rich" THEN RichWorld ELSE LeanWorld
Responses(provider) == {Fault(k) : k \in Answers.faults} \cup {Ok(b) : b \in Answers[provider]}

(* history of a completed call: who was called, the DOI it was called with
   (None for a tier), and the <<item, source>> it returned *)
Logged(i, who, arg, resp, ret) ==
    /\ log' = [log EXCEPT ![i] = Append(@, [who |-> who, arg |-> arg, hit |-> IsItem(ret[1]),
                                            item |-> ret[1], tag |-> ret[2]])]
    /\ last' = [task |-> i, who |-> who, kind |-> resp.kind,
                empty |-> resp.kind = "ok" /\ resp.body = EmptyDict, hit |-> IsItem(ret[1])]

(* variant: the step after a tier is started without awaiting the tier's
   return *)
TierReturnsNotAwaited(i, who, resp, ret) ==
    /\ \E out \in {Continue(entries[i], StepRank(who), NoItem, NoneTag, None)} :
           Resume(i, out, 0)
    /\ UNCHANGED <<entries, world, limit, pmid, log, last, results, run, applied, value>>

(* a tier adapter returns ret = <<item, source>> to process_entry *)
TierReturns(i, who, resp, ret) ==
    /\ Logged(i, who, None, resp, ret)
    /\ \E out \in {Continue(entries[i], StepRank(who), ret[1], ret[2], None)} :
           Resume(i, out, 0)
    /\ UNCHANGED <<entries, world, limit, pmid, results, run, applied, value>>

ReturnCrossrefDoi(i) ==
    /\ pc[i] = "crossref-doi"
    /\ \E resp \in Responses("crossref_doi") :
           \E ret \in {fetch_crossref_doi(resp)} :
               TierReturns(i, "crossref-doi", resp, ret)

ReturnSemanticScholar(i) ==
    /\ pc[i] = "semanticscholar"
    /\ \E resp \in Responses("semanticscholar") :
           \E ret \in {fetch_semanticscholar(entries[i].title, resp)} :
               TierReturns(i, "semanticscholar", resp, ret)

ReturnOpenAlex(i) ==
    /\ pc[i] = "openalex"
    /\ \E resp \in Responses("openalex") :
           \E ret \in {fetch_openalex(entries[i].title, resp)} :
               TierReturns(i, "openalex", resp, ret)

ReturnArxiv(i) ==
    /\ pc[i] = "arxiv"
    /\ \E resp \in Responses("arxiv") :
           \E ret \in {fetch_arxiv(entries[i].title, resp)} :
               TierReturns(i, "arxiv", resp, ret)

ReturnCrossrefTitle(i) ==
    /\ pc[i] = "crossref-title"
    /\ \E resp \in Responses("crossref_title") :
           \E ret \in {fetch_crossref_title(entries[i].title, resp)} :
               TierReturns(i, "crossref-title", resp, ret)

(* fetch_pubmed's esearch call returns: with an id the esummary call follows,
   else the adapter returns (None, None) *)
ReturnPubmedSearch(i) ==
    /\ pc[i] = "pubmed-esearch"
    /\ \E resp \in Responses("pubmed_esearch") :
           \E id \in {fetch_pubmed_esearch(resp)} :
               IF IsNone(id)
               THEN /\ TierReturns(i, "pubmed", resp, NoMatch)
               ELSE /\ pc' = [pc EXCEPT ![i] = "pubmed-esummary"]
                    /\ pmid' = [pmid EXCEPT ![i] = id]
                    /\ last' = [task |-> i, who |-> "pubmed-esearch", kind |-> resp.kind,
                                empty |-> FALSE, hit |-> TRUE]
                    /\ UNCHANGED <<entries, world, limit, permits, item, source, result,
                                   acq, rel, log, doneq, results, run, applied, value>>

ReturnPubmedSummary(i) ==
    /\ pc[i] = "pubmed-esummary"
    /\ \E resp \in Responses("pubmed_esummary") :
           \E ret \in {fetch_pubmed_esummary(pmid[i], resp)} :
               TierReturns(i, "pubmed", resp, ret)

(* the Crossref re-resolution of the candidate's DOI returns *)
ReturnAlign(i) ==
    /\ pc[i] = "align"
    /\ \E resp \in Responses("crossref_doi") :
           \E cr \in {fetch_crossref_doi(resp)} :
               \E out \in {IF ItemTruthy(cr[1])
                           THEN Continue(entries[i], StepRank("align"), cr[1],
                                         "crossref-aligned", None)
                           ELSE Continue(entries[i], StepRank("align"), item[i],
                                         source[i], None)} :
                   /\ Logged(i, "align", ItemDoi(item[i]), resp, cr)
                   /\ Resume(i, out, 0)
    /\ UNCHANGED <<entries, world, limit, pmid, results, run, applied, value>>

(* fetch_pdf_link returns; process_entry leaves the block and builds its result *)
ReturnPdf(i) ==
    /\ pc[i] = "pdf"
    /\ \E resp \in Responses("unpaywall") :
           \E link \in {fetch_pdf_link(ItemDoi(item[i]), resp)} :
               \E out \in {Continue(entries[i], StepRank("pdf"), item[i], source[i], link)} :
                   /\ Logged(i, "pdf", ItemDoi(item[i]), resp,
                             <<IF IsNone(link) THEN NoItem ELSE [url_for_pdf |-> link], NoneTag>>)
                   /\ Resume(i, out, 0)
    /\ UNCHANGED <<entries, world, limit, pmid, results, run, applied, value>>

(***************************************************************************)
(* app.py: run_audit                                                       *)
(***************************************************************************)
(* `res = await coro` in the as_completed loop, for a task that returned;
   after the last one run_audit returns results *)
Collect ==
    /\ run = "running"
    /\ \A i \in Tasks : pc[i] # "new"
    /\ doneq # <<>>
    /\ pc[Head(doneq)] = "done"
    /\ results' = Append(results, result[Head(doneq)])
    /\ doneq' = Tail(doneq)
    /\ run' = IF Len(results') = Len(entries) THEN "done" ELSE "running"
    /\ UNCHANGED <<entries, world, limit, permits, pc, item, source, pmid, result, acq, rel,
                   log, last, applied, value>>

(* `res = await coro` for a task that raised: the exception leaves run_audit
   and asyncio.run *)
CollectRaise ==
    /\ run = "running"
    /\ \A i \in Tasks : pc[i] # "new"
    /\ doneq # <<>>
    /\ pc[Head(doneq)] = "raised"
    /\ run' = "aborted"
    /\ doneq' = Tail(doneq)
    /\ UNCHANGED <<entries, world, limit, permits, pc, item, source, pmid, result, acq, rel,
                   log, last, results, applied, value>>

(* asyncio.run cancels what is left after run_audit raised: a task waiting
   on the semaphore ends with CancelledError *)
CancelWaiting(i) ==
    /\ run = "aborted"
    /\ pc[i] = "waiting"
    /\ pc' = [pc EXCEPT ![i] = "cancelled"]
    /\ UNCHANGED <<entries, world, limit, permits, item, source, pmid, result, acq, rel,
                   log, last, doneq, results, run, applied, value>>

Next ==
    \/ \E i \in Tasks : Start(i)
    \/ \E i \in Tasks : Acquire(i)
    \/ \E i \in Tasks : ReturnCrossrefDoi(i)
    \/ \E i \in Tasks : ReturnSemanticScholar(i)
    \/ \E i \in Tasks : ReturnOpenAlex(i)
    \/ \E i \in Tasks : ReturnArxiv(i)
    \/ \E i \in Tasks : ReturnCrossrefTitle(i)
    \/ \E i \in Tasks : ReturnPubmedSearch(i)
    \/ \E i \in Tasks : ReturnPubmedSummary(i)
    \/ \E i \in Tasks : ReturnAlign(i)
    \/ \E i \in Tasks : ReturnPdf(i)
    \/ Collect
    \/ CollectRaise
    \/ \E i \in Tasks : CancelWaiting(i)

Spec == Init /\ [][Next]_vars

(* the event loop runs every task that can run, and the semaphore wakes its
   waiters in turn *)
Begin(i) == i \in Tasks /\ Start(i)
WakeUp(i) == i \in Tasks /\ Acquire(i)
(* every call returns or times out (session.get(..., timeout=...)): the
   return of the call task i awaits is enabled exactly while the call is in
   flight, so its weak fairness is that the task is again and again not
   awaiting a call *)
CallsReturn(i) == []<>(i \in Tasks => ~InFlight(i))
FairSpec ==
    /\ Spec
    /\ \A i \in 1..MaxEntries : WF_vars(Begin(i)) /\ SF_vars(WakeUp(i)) /\ CallsReturn(i)
    /\ WF_vars(Collect) /\ WF_vars(CollectRaise)

(***************************************************************************)
(* app.py: the report built from the results of run_audit                  *)
(***************************************************************************)
IsClean(r) == r.confidence >= 90
IsNeedsWork(r) == ~IsClean(r) /\ r.exists
IsMissing(r) == ~IsClean(r) /\ ~r.exists
Keys(rs) == [k \in 1..Len(rs) |-> rs[k].key]
(* needs_work.sort(key=confidence, reverse=True) *)
ByConfidence(rs) == SortDesc(rs, [k \in 1..Len(rs) |-> <<rs[k].confidence, 0>>])

(* the three lists of the dashboard and the rows of the data frame and of
   the CSV export, each as the keys of its results in order *)
Report(rs) ==
    [clean |-> Keys(SelectSeq(rs, IsClean)),
     needs_work |-> Keys(ByConfidence(SelectSeq(rs, IsNeedsWork))),
     missing |-> Keys(SelectSeq(rs, IsMissing)),
     rows |-> Keys(rs)]

(***************************************************************************)
(* The pure functions of utils.py, processor.py and engines.py applied to  *)
(* bounded inputs, outside an audit run                                    *)
(***************************************************************************)
MaxTextLen == 3

(* the characters normalize treats differently *)
TextChars == {"a", "B", "{", "}", ".", ",", "-", " ", "\t"}
Texts == UNION {[1..n -> TextChars] : n \in 0..MaxTextLen}

(* no audit is running *)
PureInit ==
    /\ entries = <<>>
    /\ world = "rich"
    /\ limit = 1
    /\ permits = 1
    /\ pc = <<>>
    /\ item = <<>>
    /\ source = <<>>
    /\ pmid = <<>>
    /\ result = <<>>
    /\ acq = <<>>
    /\ rel = <<>>
    /\ log = <<>>
    /\ last = NoLast
    /\ doneq = <<>>
    /\ results = <<>>
    /\ run = "running"
    /\ applied = NoCall
    /\ value = None

(* one call of fn on args, which returns ret; the functions keep no state,
   so a behaviour is one call *)
Applies(fn, args, ret) ==
    /\ applied = NoCall
    /\ applied' = [fn |-> fn, args |-> args]
    /\ value' = ret
    /\ UNCHANGED audit

MaxYearGap == 2

(* the year of an entry: absent, empty, a number with or without blanks or
   sign, or not a number *)
BibYears ==
    {None, <<>>, <<"2","0","2","0">>, <<" ","2","0","2","0"," ">>, <<"+","2","0","2","0">>,
     <<"2","0","2","1">>, <<"2","0","x","0">>, <<"n",".","d",".">>, <<"2","0","2","0","a">>}
(* the year of a canonical record: absent or an int near 2020 *)
CanonYears == {None} \cup {PyInt(2020 + d) : d \in (0 - MaxYearGap)..MaxYearGap}

ApplyYearCheck ==
    \E bib_year \in BibYears : \E cr_year \in CanonYears :
        Applies("year", <<bib_year, cr_year>>, YearStatus(bib_year, cr_year))

J_NuclMed == <<"J"," ","N","u","c","l"," ","M","e","d">>
J_NuclearMedicine ==
    <<"J","o","u","r","n","a","l"," ","o","f"," ","N","u","c","l","e","a","r"," ","M","e","d","i","c","i","n","e">>

(* journal names: absent, empty, abbreviated, spelled out with and without
   "of", reordered,
   unrelated, repeated tokens, and one that normalizes to nothing *)
JournalNames ==
    {None, <<>>,
     J_NuclMed, J_NuclearMedicine,
     <<"J","o","u","r","n","a","l"," ","N","u","c","l","e","a","r"," ","M","e","d","i","c","i","n","e">>,
     <<"J","."," ","N","u","c","l","."," ","M","e","d",".">>,
     <<"N","u","c","l"," ","M","e","d"," ","J">>,
     <<"N","a","t","u","r","e">>,
     <<"M","e","d"," ","M","e","d">>,
     <<"M","e","d","i","c","i","n","e"," ","Z">>,
     <<"{","}">>}

ApplyJournalMatch ==
    \E bib_journal \in JournalNames : \E api_journal \in JournalNames :
        Applies("journal", <<bib_journal, api_journal>>,
                check_journal_match(bib_journal, api_journal))

(* every answer of a provider in the rich world *)
AllResponses(provider) ==
    {Fault(k) : k \in RichWorld.faults} \cup {Ok(b) : b \in RichWorld[provider]}

ApplyOpenAlex ==
    \E resp \in AllResponses("openalex") :
        Applies("openalex", <<T_q, resp>>, fetch_openalex(T_q, resp))

ApplySemanticScholar ==
    \E resp \in AllResponses("semanticscholar") :
        Applies("semanticscholar", <<T_q, resp>>, fetch_semanticscholar(T_q, resp))

MaxCites == 2

(* candidates of a Crossref search: a title that passes the gate for T_q or
   one that does not, a citation count, and a creation year or none *)
CrWithCreated ==
    {[title |-> <<t>>, is_referenced_by_count |-> PyInt(c),
      created |-> [date_parts |-> << <<PyInt(y)>> >>]] :
        t \in {T_same, T_far}, c \in 0..MaxCites, y \in {2019, 2021}}
CrWithoutCreated ==
    {[title |-> <<t>>, is_referenced_by_count |-> PyInt(c)] :
        t \in {T_same, T_far}, c \in 0..MaxCites}
CrCandidates == CrWithCreated \cup CrWithoutCreated
CrItemLists == UNION {[1..n -> CrCandidates] : n \in 0..3}

ApplyCrossrefTitle ==
    \E items \in CrItemLists : \E resp \in {Ok([message |-> [items |-> items]])} :
        Applies("crossref-title", <<T_q, resp>>, fetch_crossref_title(T_q, resp))

(* author strings: absent, empty, one author, two in either order, the
   string process_entry joins from two authors without a family name
   (OpenAlex), one from an author without a name after a named one, and a
   name similar to Roe *)
AuthorStrings ==
    {None, <<>>,
     <<"R","o","e",","," ","A">>,
     <<"L","e","e",","," ","B">>,
     <<"R","o","e",","," ","A"," ","a","n","d"," ","L","e","e",","," ","B">>,
     <<"L","e","e",","," ","B"," ","a","n","d"," ","R","o","e",","," ","A">>,
     <<" ","a","n","d"," ">>,
     <<"L","e","e",","," ","B"," ","a","n","d"," ">>,
     <<"R","o","w","e">>}

(* the author field of an entry: absent, empty, one author or two *)
BibAuthors ==
    {None, <<>>,
     <<"R","o","e",","," ","A">>,
     <<"L","e","e",","," ","B">>,
     <<"R","o","e",","," ","A"," ","a","n","d"," ","L","e","e",","," ","B">>,
     <<"R","o","w","e">>}

ApplyCheckAuthors ==
    \E bib_authors \in BibAuthors : \E api_authors \in AuthorStrings :
        Applies("authors", <<bib_authors, api_authors>>,
                check_authors(bib_authors, api_authors))

(* the tags a resolved entry can carry *)
SourceTags == TrustedSources \cup {"openalex", "crossref-title"}

(* the scoring of process_entry for a source and the counts of the four
   checked fields *)
ApplyConfidence ==
    \E src \in SourceTags : \E score \in 0..4 : \E valid \in 0..4 :
        Applies("confidence", <<src, score, valid>>, PyInt(Confidence(src, score, valid)))

ApplyNormalize == \E text \in Texts \cup {None} : Applies("normalize", <<text>>, normalize(text))

PureNext ==
    \/ ApplyNormalize
    \/ ApplyYearCheck
    \/ ApplyJournalMatch
    \/ ApplyOpenAlex
    \/ ApplySemanticScholar
    \/ ApplyCrossrefTitle
    \/ ApplyCheckAuthors
    \/ ApplyConfidence

PureSpec == PureInit /\ [][PureNext]_vars

(***************************************************************************)
(* Properties                                                              *)
(***************************************************************************)
TierNames == {"crossref-doi", "semanticscholar", "openalex", "arxiv", "crossref-title",
              "pubmed"}
IsTierCall(e) == e.who \in TierNames
IsAlignCall(e) == e.who = "align"
IsPdfCall(e) == e.who = "pdf"
(* the tier lookups task i has completed, in order *)
TierLog(i) == SelectSeq(log[i], IsTierCall)
(* the tier whose lookup task i awaits *)
PcTier(p) == IF p \in {"pubmed-esearch", "pubmed-esummary"} THEN "pubmed" ELSE p
(* process_entry of task i has ended *)
Finished(i) == pc[i] \in {"done", "raised"}
(* the entry of task i carries the verified flag, in any letter case *)
Flagged(i) ==
    Get(entries[i], "verified", <<>>) \in {<<"t","r","u","e">>, <<"T","r","u","e">>}
LookupsInFlight == Cardinality({i \in Tasks : InFlight(i)})

(* C1: at every instant the number of provider lookups in flight, over all
   entries and counting tier, alignment and PDF lookups, is at most the limit
   of the semaphore *)
C1_InFlightWithinLimit == LookupsInFlight <= limit

(* C1 case: as many lookups in flight as the limit allows while another
   entry waits for a permit *)
C1_Witness ==
    /\ LookupsInFlight = limit
    /\ \E i \in Tasks : pc[i] = "waiting"

(* C2: within one entry the tiers are called in the fixed order Crossref DOI
   (only with a DOI), Semantic Scholar, OpenAlex, arXiv, Crossref search,
   PubMed; a tier is called only when every tier called before it returned
   none, so no tier is called after the first result *)
C2_TierOrder ==
    \A i \in Tasks :
        /\ \A k \in 1..Len(TierLog(i)) : \A l \in (k + 1)..Len(TierLog(i)) :
               StepRank(TierLog(i)[k].who) < StepRank(TierLog(i)[l].who)
        /\ \A k \in 1..(Len(TierLog(i)) - 1) : ~TierLog(i)[k].hit
        /\ \A k \in 1..Len(TierLog(i)) :
               /\ TierLog(i)[k].who = "crossref-doi" => Truthy(Get(entries[i], "doi", None))
               /\ TierLog(i)[k].who # "crossref-doi" => Truthy(Get(entries[i], "title", None))
        /\ PcTier(pc[i]) \in TierNames =>
               \A k \in 1..Len(TierLog(i)) :
                   /\ ~TierLog(i)[k].hit
                   /\ StepRank(TierLog(i)[k].who) < StepRank(PcTier(pc[i]))

(* C2 case: an entry whose Crossref DOI and Semantic Scholar lookups returned
   none, whose OpenAlex lookup returned a record, and which has ended *)
C2_Witness ==
    \E i \in Tasks :
        /\ Finished(i)
        /\ Len(TierLog(i)) = 3
        /\ TierLog(i)[1].who = "crossref-doi" /\ ~TierLog(i)[1].hit
        /\ TierLog(i)[2].who = "semanticscholar" /\ ~TierLog(i)[2].hit
        /\ TierLog(i)[3].who = "openalex" /\ TierLog(i)[3].hit

(* C3: an entry flagged verified resolves with confidence 100 and the tag
   "manual-override"; no adapter or PDF call is made for it and it takes no
   permit, whatever the other entries do *)
C3_ManualOverride ==
    \A i \in Tasks :
        Flagged(i) =>
            /\ pc[i] \in {"new", "done"}
            /\ log[i] = <<>>
            /\ acq[i] = 0
            /\ pc[i] = "done" =>
                   /\ result[i].confidence = 100
                   /\ result[i].resolution = "manual-override"

(* C3 case: a verified entry has resolved while another entry has a lookup
   in flight *)
C3_Witness ==
    \E i, j \in Tasks :
        /\ Flagged(i) /\ pc[i] = "done"
        /\ InFlight(j)

(* C4: a non-verified entry all of whose attempted adapters returned none,
   or for which none was attempted, ends normally with exists false,
   confidence 0, an empty field check, no resolution tag and no PDF link *)
C4_Unresolved ==
    \A i \in Tasks :
        (Finished(i) /\ ~Flagged(i) /\ \A k \in 1..Len(TierLog(i)) : ~TierLog(i)[k].hit) =>
            /\ pc[i] = "done"
            /\ result[i].exists = FALSE
            /\ result[i].confidence = 0
            /\ result[i].field_check = EmptyDict
            /\ result[i].resolution = NoneTag
            /\ result[i].pdf_link = None

(* C4 case: an entry with a DOI and a title has ended after all six tiers
   returned none *)
C4_Witness ==
    \E i \in Tasks :
        /\ pc[i] = "done"
        /\ Len(TierLog(i)) = 6
        /\ \A k \in 1..6 : ~TierLog(i)[k].hit

(* C5: the confidence of every result of process_entry is an integer between
   0 and 100 *)
C5_ConfidenceInRange ==
    \A i \in Tasks : pc[i] = "done" => result[i].confidence \in 0..100

(* C6: a run never aborts: run_audit does not raise, and when it returns it
   returns exactly one result for every entry *)
C6_RunNeverAborts ==
    /\ run # "aborted"
    /\ run = "done" => Len(results) = Len(entries)

(* C7: an adapter call that met a network failure, a timeout, a non-2xx
   response, an unparseable body or a payload without any of the expected
   keys returns (none, none) *)
C7_FailureIsNoMatch ==
    (last.who \in TierNames \cup {"align"} /\ (last.kind # "ok" \/ last.empty)) => ~last.hit

KnowledgeGraphTiers == {"openalex", "semanticscholar"}
(* the positions of the log of task i that hold an alignment / a PDF call *)
AlignCalls(i) == {k \in 1..Len(log[i]) : IsAlignCall(log[i][k])}
PdfCalls(i) == {k \in 1..Len(log[i]) : IsPdfCall(log[i][k])}
(* the candidate of task i exists and carries a DOI *)
HasDoi(i) == ItemTruthy(item[i]) /\ Truthy(ItemDoi(item[i]))

(* C8: a candidate from OpenAlex or Semantic Scholar that carries a DOI has
   that DOI re-resolved on Crossref before the result is built; on success
   the record is the Crossref record and the tag "crossref-aligned", on
   failure the candidate and its tag are kept; so a result tagged "openalex"
   or "semanticscholar" with a DOI exists only after a failed re-resolution,
   and a candidate of another tier is never re-resolved *)
C8_Alignment ==
    \A i \in Tasks :
        /\ \A k \in AlignCalls(i) :
               /\ k > 1
               /\ IsTierCall(log[i][k - 1]) /\ log[i][k - 1].hit
               /\ log[i][k - 1].who \in KnowledgeGraphTiers
               /\ Truthy(log[i][k].arg)
               /\ log[i][k].arg = ItemDoi(log[i][k - 1].item)
               /\ item[i] = (IF log[i][k].hit THEN log[i][k].item ELSE log[i][k - 1].item)
               /\ source[i] = (IF log[i][k].hit THEN "crossref-aligned" ELSE log[i][k - 1].tag)
        /\ \A k \in 1..Len(log[i]) :
               (/\ IsTierCall(log[i][k]) /\ log[i][k].hit
                /\ log[i][k].who \in KnowledgeGraphTiers
                /\ Truthy(ItemDoi(log[i][k].item))) =>
                   IF k = Len(log[i]) THEN pc[i] = "align" ELSE IsAlignCall(log[i][k + 1])
        /\ (pc[i] = "done" /\ result[i].exists /\ ~Flagged(i)) =>
               /\ result[i].resolution = source[i]
               /\ result[i].verified_doi = ItemDoi(item[i])
               /\ (result[i].resolution \in KnowledgeGraphTiers
                   /\ Truthy(result[i].verified_doi)) =>
                      \E k \in AlignCalls(i) : ~log[i][k].hit

(* C8 case: a Semantic Scholar or OpenAlex candidate was re-resolved, with
   success, to a Crossref record with another DOI, and the result is built *)
C8_Witness ==
    \E i \in Tasks : \E k \in AlignCalls(i) :
        /\ log[i][k].hit
        /\ pc[i] = "done"
        /\ result[i].resolution = "crossref-aligned"
        /\ result[i].verified_doi # log[i][k].arg

(* C9: the PDF locator is called exactly when the final candidate exists and
   carries a DOI, after the tier and alignment lookups, with the DOI of the
   final candidate, at most once; without a candidate or a DOI there is no
   PDF call and the link is none; a failed PDF lookup leaves the link none
   and the rest of the result as it would be *)
C9_Enrichment ==
    \A i \in Tasks :
        /\ Cardinality(PdfCalls(i)) <= 1
        /\ \A k \in PdfCalls(i) :
               /\ k = Len(log[i])
               /\ Finished(i)
               /\ Truthy(log[i][k].arg)
               /\ log[i][k].arg = ItemDoi(item[i])
        /\ pc[i] = "pdf" => HasDoi(i)
        /\ (Finished(i) /\ ~Flagged(i)) => (HasDoi(i) <=> PdfCalls(i) # {})
        /\ (pc[i] = "done" /\ ~Flagged(i)) =>
               /\ (PdfCalls(i) = {} \/ \E k \in PdfCalls(i) : ~log[i][k].hit) =>
                      result[i].pdf_link = None
               /\ \A k \in PdfCalls(i) :
                      IF log[i][k].hit
                      THEN result[i].pdf_link = log[i][k].item.url_for_pdf
                      ELSE result[i] = ResolvedStatus(entries[i], item[i], source[i], None)

(* C9 case: a result built after an alignment and a failed PDF lookup *)
C9_Witness ==
    \E i \in Tasks : \E k \in PdfCalls(i) :
        /\ ~log[i][k].hit
        /\ AlignCalls(i) # {}
        /\ pc[i] = "done"
        /\ result[i].exists

(* C10: a non-verified entry acquires one permit before its first lookup and
   releases it once after its last call; every call is made while the entry
   holds its permit; the permits available are always between 0 and the limit
   and equal the limit once all entries have ended *)
C10_SemaphoreScope ==
    /\ permits \in 0..limit
    /\ permits = limit - Cardinality({i \in Tasks : acq[i] > rel[i]})
    /\ \A i \in Tasks :
           /\ rel[i] <= acq[i] /\ acq[i] <= 1
           /\ InFlight(i) => acq[i] = 1 /\ rel[i] = 0
           /\ log[i] # <<>> => acq[i] = 1
           /\ (Finished(i) /\ ~Flagged(i)) => acq[i] = 1 /\ rel[i] = 1
    /\ (\A i \in Tasks : pc[i] \in {"done", "raised", "cancelled"}) => permits = limit

(* C10 case: with one permit, two entries have each made a lookup and ended *)
C10_Witness ==
    /\ limit = 1
    /\ \E i, j \in Tasks : i # j /\ log[i] # <<>> /\ log[j] # <<>>
    /\ \A i \in Tasks : Finished(i)
    /\ permits = limit

(* C20: normalize is idempotent: normalizing what normalize returned, for a
   string with braces, punctuation, upper case and whitespace runs or for an
   absent input, returns it unchanged *)
C20_NormalizeIdempotent ==
    applied.fn = "normalize" => normalize(value) = value

(* C20 case: normalize has changed a string with upper case, punctuation and
   a whitespace run *)
C20_Witness ==
    /\ applied.fn = "normalize"
    /\ applied.args = << <<"B", "-", " ">> >>
    /\ value = <<"b">>

(* a result of process_entry for a resolved, non-verified entry *)
Resolved(i) == pc[i] = "done" /\ ~Flagged(i) /\ result[i].exists
FieldNames == {"title", "year", "journal", "author"}
(* the fields of a result's field check with status ok, and those the entry
   has a value for *)
OkFields(r) == {f \in FieldNames : r.field_check[f].status = "ok"}
PresentFields(r) == {f \in FieldNames : Truthy(r.field_check[f].bibtex)}
(* round(100 * score / valid), valid > 0 *)
RoundedPercent(score, valid) == (200 * score + valid) \div (2 * valid)
(* the confidence as the formula with rounding gives it *)
RoundedConfidence(tag, score, valid) ==
    IF tag \in {"crossref-doi", "crossref-aligned", "pubmed-full", "arxiv", "semanticscholar"}
       /\ score = valid
    THEN 100
    ELSE IF valid # 0 THEN RoundedPercent(score, valid) ELSE 50

(* C11: the confidence of a result is 100 for a trusted source with score
   equal to valid, else round(100 * score / valid), else 50 when no field is
   present, with score the number of ok fields and valid the number of
   fields present in the entry *)
C11_RoundedConfidence ==
    \A i \in Tasks :
        Resolved(i) =>
            result[i].confidence =
                RoundedConfidence(result[i].resolution, Cardinality(OkFields(result[i])),
                                  Cardinality(PresentFields(result[i])))

(* C12: in the field check of every result a field has status "missing"
   only when the entry has no value for it; a field the entry has, also when
   the canonical record has no value for it, is "ok" or "mismatch" *)
C12_MissingOnlyWhenAbsent ==
    \A i \in Tasks :
        Resolved(i) =>
            \A f \in FieldNames :
                /\ result[i].field_check[f].status \in {"ok", "mismatch", "missing"}
                /\ result[i].field_check[f].status = "missing" =>
                       ~Truthy(result[i].field_check[f].bibtex)

TitleKeyedTiers == {"semanticscholar", "openalex", "arxiv", "crossref-title", "pubmed"}

(* C13: every record a title-keyed lookup returned (Semantic Scholar,
   OpenAlex, arXiv, Crossref search, PubMed) has a title whose similarity to
   the entry's title is above the threshold of 0.75 *)
C13_SimilarityGate ==
    \A i \in Tasks : \A k \in 1..Len(log[i]) :
        (log[i][k].who \in TitleKeyedTiers /\ log[i][k].hit) =>
            /\ TitleList(log[i][k].item) # <<>>
            /\ RatioAbove(similarity(entries[i].title, TitleList(log[i][k].item)[1]), 75, 100)

(* the entry of task i has a DOI and a title, a year, a journal and an author *)
FullEntry(i) ==
    \A f \in {"doi", "title", "year", "journal", "author"} : Truthy(Get(entries[i], f, None))
(* the first lookup of task i was the Crossref DOI lookup and returned a record *)
DoiResolved(i) ==
    /\ log[i] # <<>>
    /\ log[i][1].who = "crossref-doi"
    /\ log[i][1].hit

(* C14: for an entry with a DOI and all four fields whose Crossref DOI lookup
   returned a record, no title-keyed tier and no alignment lookup is called,
   and when the record matches all four fields the result has confidence 100
   and the tag "crossref-doi" *)
C14_DoiFullMatch ==
    \A i \in Tasks :
        (FullEntry(i) /\ DoiResolved(i)) =>
            /\ \A k \in 1..Len(log[i]) : log[i][k].who \notin TitleKeyedTiers \cup {"align"}
            /\ PcTier(pc[i]) \notin TitleKeyedTiers \cup {"align"}
            /\ (pc[i] = "done" /\ OkFields(result[i]) = FieldNames) =>
                   /\ result[i].confidence = 100
                   /\ result[i].resolution = "crossref-doi"

(* C14 case: such an entry has resolved by DOI to a record that matches its
   four fields *)
C14_Witness ==
    \E i \in Tasks :
        /\ FullEntry(i) /\ DoiResolved(i)
        /\ pc[i] = "done"
        /\ OkFields(result[i]) = FieldNames

(* the results in another order of completion *)
Orders(n) == {f \in [1..n -> 1..n] : \A a, b \in 1..n : f[a] = f[b] => a = b}
Reordered(rs, f) == [k \in 1..Len(rs) |-> rs[f[k]]]

(* C15: the order of the entries in the final report (the dashboard lists and
   the CSV rows) is the same for every order in which the entry tasks
   complete *)
C15_ReportOrderFixed ==
    run = "done" =>
        \A f \in Orders(Len(results)) : Report(Reordered(results, f)) = Report(results)

(* the two years both parse as integers, and how far apart they are *)
BothParse(b, c) == IntParses(b) /\ IntParses(c)
YearGap(b, c) == Abs(IntOf(b) - IntOf(c))

(* C16: the year status is ok exactly when the two years are equal as
   strings or both parse as integers and differ by at most 1; a year that
   does not parse gives a status other than ok unless the strings are equal,
   and a difference of 2 or more is never ok *)
C16_YearCheck ==
    applied.fn = "year" =>
        /\ value \in {"ok", "mismatch"}
        /\ value = "ok" <=>
               \/ Str(applied.args[1]) = Str(applied.args[2])
               \/ BothParse(applied.args[1], applied.args[2])
                  /\ YearGap(applied.args[1], applied.args[2]) <= 1
        /\ (~BothParse(applied.args[1], applied.args[2])
            /\ Str(applied.args[1]) # Str(applied.args[2])) => value # "ok"
        /\ (BothParse(applied.args[1], applied.args[2])
            /\ YearGap(applied.args[1], applied.args[2]) >= 2) => value # "ok"

(* C16 case: the years " 2020 " and 2021 differ as strings and by one as
   integers, and the status is ok *)
C16_Witness ==
    /\ applied.fn = "year"
    /\ applied.args = << <<" ","2","0","2","0"," ">>, PyInt(2021) >>
    /\ value = "ok"

(* f places the first k tokens of short on tokens of long, left to right:
   each on the first token after the previous place that starts with it *)
IsWalk(short, long, f, k) ==
    \A m \in 1..k :
        /\ f[m] > (IF m = 1 THEN 0 ELSE f[m - 1])
        /\ StartsWith(long[f[m]], short[m])
        /\ \A j \in ((IF m = 1 THEN 0 ELSE f[m - 1]) + 1)..(f[m] - 1) :
               ~StartsWith(long[j], short[m])

(* after k tokens are placed the walk ends: short is used up, or no later
   token of long starts with the next token of short *)
WalkEnds(short, long, f, k) ==
    \/ k = Len(short)
    \/ \A j \in ((IF k = 0 THEN 0 ELSE f[k]) + 1)..Len(long) :
           ~StartsWith(long[j], short[k + 1])

(* the number of tokens of short the walk places *)
WalkMatches(short, long) ==
    CHOOSE k \in 0..Len(short) :
        \E f \in [1..k -> 1..Len(long)] :
            IsWalk(short, long, f, k) /\ WalkEnds(short, long, f, k)

(* the status the claim states for token lists tb of the entry and ta of the
   canonical record; short is the one with fewer tokens *)
WalkStatus(tb, ta) ==
    IF Len(tb) < Len(ta)
    THEN (IF 4 * WalkMatches(tb, ta) >= 3 * Len(tb) THEN "ok" ELSE "mismatch")
    ELSE (IF 4 * WalkMatches(ta, tb) >= 3 * Len(ta) THEN "ok" ELSE "mismatch")

DirectlySimilar(nb, na) == RatioAbove(Ratio(nb, na), 6, 10)

(* C17: the journal status is missing when either side is absent; otherwise,
   when the direct similarity is not above 0.6, it is the outcome of the
   abbreviation walk: ok iff matches >= 0.75 * len(short), else mismatch *)
C17_JournalMatch ==
    applied.fn = "journal" =>
        IF ~Truthy(applied.args[1]) \/ ~Truthy(applied.args[2])
        THEN value = "missing"
        ELSE \/ DirectlySimilar(normalize(applied.args[1]), normalize(applied.args[2]))
             \/ value = WalkStatus(SplitWs(normalize(applied.args[1]), <<>>),
                                   SplitWs(normalize(applied.args[2]), <<>>))

(* C17 case: "J Nucl Med" against "Journal of Nuclear Medicine" is not
   directly similar, the walk places all three tokens, and the status is ok *)
C17_Witness ==
    /\ applied.fn = "journal"
    /\ applied.args = << J_NuclMed, J_NuclearMedicine >>
    /\ ~DirectlySimilar(normalize(J_NuclMed), normalize(J_NuclearMedicine))
    /\ WalkMatches(SplitWs(normalize(J_NuclMed), <<>>),
                   SplitWs(normalize(J_NuclearMedicine), <<>>)) = 3
    /\ value = "ok"

(* the fields of clean_data that the canonical record may lack *)
OptionalFields == {"year", "volume", "number", "pages", "doi", "arxiv_id"}
(* a value of clean_data left out of the suggestion, or free of the text
   that str() gives for a value the response lacks *)
OmittedOrGiven(v) == IsNone(v) \/ ~Contains(v, Str(None))

(* C18: in the clean_data of every resolved result, a field the source
   response lacks is omitted and never filled with a placeholder: no
   optional field holds the text "None" or a part of it such as "1-None" *)
C18_NoPlaceholder ==
    \A i \in Tasks :
        Resolved(i) =>
            \A f \in OptionalFields : OmittedOrGiven(result[i].clean_data[f])

(* the candidates of a 200 response of OpenAlex and of Semantic Scholar *)
CandidatesOA(resp) == IF resp.kind = "ok" THEN Get(resp.body, "results", <<>>) ELSE <<>>
CandidatesS2(resp) == IF resp.kind = "ok" THEN Get(resp.body, "data", <<>>) ELSE <<>>

(* C19: a top candidate whose title passes the similarity gate is returned by
   its adapter as a match, also when its optional fields are absent or null:
   the top result of OpenAlex, and for Semantic Scholar a response with a
   candidate that passes the gate *)
C19_NullFieldsTolerated ==
    /\ (/\ applied.fn = "openalex"
        /\ CandidatesOA(applied.args[2]) # <<>>
        /\ Gate(applied.args[1],
                Get(CandidatesOA(applied.args[2])[1], "display_name", <<>>)))
       => IsItem(value[1])
    /\ (/\ applied.fn = "semanticscholar"
        /\ \E k \in 1..Len(CandidatesS2(applied.args[2])) :
               Gate(applied.args[1], Get(CandidatesS2(applied.args[2])[k], "title", <<>>)))
       => IsItem(value[1])

(* the step delivers to task i the return of the call it awaits: the call is
   appended to the history of the task, or it is the esearch call of
   fetch_pubmed, whose id is kept for the esummary call *)
ReturnDelivered(i) ==
    \/ /\ Len(log'[i]) = Len(log[i]) + 1
       /\ log'[i][Len(log'[i])].who = PcTier(pc[i])
       /\ SubSeq(log'[i], 1, Len(log[i])) = log[i]
    \/ /\ pc[i] = "pubmed-esearch"
       /\ pc'[i] = "pubmed-esummary"
       /\ last' = [task |-> i, who |-> "pubmed-esearch", kind |-> "ok",
                   empty |-> FALSE, hit |-> TRUE]
       /\ ~IsNone(pmid'[i])

(* C22: an entry has one call in flight at a time: its position leaves a
   call only in the step that delivers the return of that call, a call of an
   entry begins only from the start of the block or from such a return, and a
   step moves one entry only *)
C22_OneCallAtATime ==
    [][/\ \A i \in Tasks :
              /\ (pc[i] \in Calls /\ pc'[i] # pc[i]) => ReturnDelivered(i)
              /\ (pc'[i] \in Calls /\ pc'[i] # pc[i]) =>
                     \/ pc[i] \in {"new", "waiting"} /\ log[i] = <<>>
                     \/ pc[i] \in Calls /\ ReturnDelivered(i)
       /\ Cardinality({i \in Tasks : pc'[i] # pc[i]}) <= 1]_vars

(* C22 case: an entry awaits the PDF lookup after its tier lookup and its
   alignment lookup have returned *)
C22_Witness ==
    \E i \in Tasks :
        /\ pc[i] = "pdf"
        /\ Len(log[i]) >= 2
        /\ log[i][Len(log[i])].who = "align"
        /\ \E k \in 1..(Len(log[i]) - 1) : log[i][k].hit

(* process_entry of task i returned a result that is resolved (exists with
   a resolution tag) or unresolved *)
Terminal(i) ==
    /\ pc[i] = "done"
    /\ result[i].exists => result[i].resolution # NoneTag

(* C21: with every call returning or timing out and a fair semaphore, every
   non-verified entry eventually reaches a terminal state, resolved or
   unresolved *)
C21_EveryEntryTerminates ==
    \A i \in 1..MaxEntries :
        <>(i \in Tasks => (Flagged(i) \/ Terminal(i)))

(* the positions of the candidates of a Crossref search whose title passes
   the gate *)
Passing(title, items) == {k \in 1..Len(items) : Gate(title, items[k].title[1])}
(* candidate a is ranked at least as high as b: more citations, or as many
   and created no later (a record without a creation date counts as 3000) *)
RankedBefore(a, b) ==
    \/ CrCount(a) > CrCount(b)
    \/ CrCount(a) = CrCount(b) /\ CrCreated(a) <= CrCreated(b)
(* ret is the return for a best passing candidate of items *)
ReturnsBest(title, items, ret) ==
    /\ ret[2] = "crossref-title"
    /\ \E k \in Passing(title, items) :
           /\ ret[1] = items[k]
           /\ \A j \in Passing(title, items) : RankedBefore(items[k], items[j])

(* C23: the Crossref search returns, among the candidates whose title passes
   the gate, one with the highest citation count and among equally cited
   ones the earliest created; it returns no match only when none passes *)
C23_RankedBeforeGate ==
    applied.fn = "crossref-title" =>
        IF Passing(applied.args[1], applied.args[2].body.message.items) = {}
        THEN value = NoMatch
        ELSE ReturnsBest(applied.args[1], applied.args[2].body.message.items, value)

(* C23 case: a passing record created in 2021 listed before an equally cited
   passing record created in 2019, and the one of 2019 is returned *)
C23_Witness ==
    /\ applied.fn = "crossref-title"
    /\ Len(applied.args[2].body.message.items) = 2
    /\ Passing(applied.args[1], applied.args[2].body.message.items) = {1, 2}
    /\ CrCount(applied.args[2].body.message.items[1])
           = CrCount(applied.args[2].body.message.items[2])
    /\ CrCreated(applied.args[2].body.message.items[1]) = 2021
    /\ CrCreated(applied.args[2].body.message.items[2]) = 2019
    /\ value[1] = applied.args[2].body.message.items[2]

(* the family name of the first author of a string of authors, normalized *)
FirstFamily(authors) ==
    normalize(SplitOn(SplitOn(authors, SepAnd, <<>>)[1], <<",">>, <<>>)[1])
(* authorsMatch as the claim states it: both first family names are given,
   and one contains the other or their similarity exceeds 0.7 *)
FirstAuthorsMatch(bib_authors, api_authors) ==
    /\ Truthy(bib_authors) /\ Truthy(api_authors)
    /\ FirstFamily(bib_authors) # <<>> /\ FirstFamily(api_authors) # <<>>
    /\ \/ Contains(FirstFamily(api_authors), FirstFamily(bib_authors))
       \/ Contains(FirstFamily(bib_authors), FirstFamily(api_authors))
       \/ RatioAbove(Ratio(FirstFamily(bib_authors), FirstFamily(api_authors)), 7, 10)

(* C24: the author check is ok iff the first author's family name of the
   entry matches the first author's family name of the canonical record; a
   later canonical author or a canonical author with an empty name does not
   make it ok *)
C24_FirstAuthorOnly ==
    applied.fn = "authors" =>
        (value <=> FirstAuthorsMatch(applied.args[1], applied.args[2]))

(* C25: in every resolved result a field the entry lacks never has status
   ok, so the number of ok fields is at most the number of fields the entry
   has (score <= valid) *)
C25_OkOnlyWhenPresent ==
    \A i \in Tasks :
        Resolved(i) =>
            /\ OkFields(result[i]) \subseteq PresentFields(result[i])
            /\ Cardinality(OkFields(result[i])) <= Cardinality(PresentFields(result[i]))

(* C26: with at least one field present in the entry (valid >= 1) the
   confidence of a (score, valid) pair is the truncated percentage whatever
   the source, trusted or not; the source matters only when valid = 0 *)
C26_SourceIrrelevant ==
    applied.fn = "confidence" =>
        IF applied.args[3] >= 1
        THEN /\ value = PyInt((100 * applied.args[2]) \div applied.args[3])
             /\ \A src \in SourceTags :
                    PyInt(Confidence(src, applied.args[2], applied.args[3])) = value
        ELSE value = PyInt(IF applied.args[1] \in TrustedSources /\ applied.args[2] = 0
                           THEN 100 ELSE 50)

(* C26 case: a trusted source with one ok field of two present gets 50, as an
   untrusted one does *)
C26_Witness ==
    /\ applied.fn = "confidence"
    /\ applied.args = <<"semanticscholar", 1, 2>>
    /\ value = PyInt(50)
    /\ Confidence("openalex", 1, 2) = 50

(* C27: for journal names that are given and not directly similar the
   abbreviation heuristic gives the same status in either order of its
   arguments, also when both names have the same number of tokens *)
C27_JournalMatchSymmetric ==
    (/\ applied.fn = "journal"
     /\ Truthy(applied.args[1]) /\ Truthy(applied.args[2])
     /\ ~DirectlySimilar(normalize(applied.args[1]), normalize(applied.args[2]))
     /\ ~DirectlySimilar(normalize(applied.args[2]), normalize(applied.args[1])))
    => value = check_journal_match(applied.args[2], applied.args[1])

====
